---- MODULE Spec2Model ----
(***************************************************************************)
(* Model of src/app.py: a Flask application with one view, analyze_image,  *)
(* registered for POST /analyze-image, which relays an image to the        *)
(* external generation API and maps the outcome to an HTTP response.       *)
(*                                                                         *)
(* Each worker of the HTTP server handles one request at a time; the       *)
(* workers interleave.  The external API is an environment: whether it is  *)
(* reachable, failing or out of quota at the moment of a call shows only   *)
(* in what that call does.                                                 *)
(*                                                                         *)
(* A response is [status, mimetype, json, html]: json is the set of        *)
(* <<key, value>> members of a jsonify() body, html the title of a         *)
(* framework-generated error page (empty for JSON responses).              *)
(***************************************************************************)
EXTENDS Integers, Sequences, FiniteSets, TLC

VARIABLES
    flask_415,          \* build: request.json aborts with 415 on a non-JSON content type
    generation_config,  \* module global, app.py:26
    safety_setting,     \* module global, app.py:33
    system_prompt,      \* module global, app.py:41
    pc,                 \* per worker: position in the handling of its request
    request,            \* per worker: the request being handled
    prompt_parts,       \* per worker: what was passed to generate_content
    outcome,            \* per worker: outcome of its generate_content call
    exc,                \* per worker: str(e) of the exception caught at app.py:104
    calls,              \* per worker: generate_content calls made for this request
    logged,             \* per worker: the error log line was printed
    response            \* per worker: the response returned

vars == <<flask_415, generation_config, safety_setting, system_prompt,
          pc, request, prompt_parts, outcome, exc, calls, logged, response>>

NumWorkers == 2
Workers == 1..NumWorkers

-----------------------------------------------------------------------------
(* Module globals                                                          *)

GenerationConfig ==
    [temperature |-> "1", top_p |-> "0.95", top_k |-> "40", max_output_tokens |-> "8192"]

SafetySetting ==
    { [category |-> c, threshold |-> "BLOCK_MEDIUM_AND_ABOVE"] :
        c \in {"HARM_CATEGORY_HARASSMENT", "HARM_CATEGORY_HATE_SPEECH",
               "HARM_CATEGORY_SEXUALLY_EXPLICIT", "HARM_CATEGORY_DANGEROUS_CONTENT"} }

SystemPrompt == "Your Responsibilities include: ..."

\* The routes registered on app: only analyze_image, for POST.
url_map == { [rule |-> "/analyze-image", methods |-> {"POST"}] }

-----------------------------------------------------------------------------
(* Python values and strings                                               *)

PyNone == [none |-> TRUE, s |-> ""]
PyStr(s) == [none |-> FALSE, s |-> s]

\* bool(v) of a value that is None or a str
Truthy(v) == ~v.none /\ v.s # ""

\* needle in hay, on str
StrIn(needle, hay) ==
    \E i \in 1..(Len(hay) - Len(needle) + 1) :
        SubSeq(hay, i, i + Len(needle) - 1) = needle

-----------------------------------------------------------------------------
(* Requests                                                                *)

Absent == [has |-> "absent", s |-> ""]
Null == [has |-> "null", s |-> ""]
Str(s) == [has |-> "string", s |-> s]

MkBody(is_json, kind, items, imageData, mimeType, other) ==
    [is_json |-> is_json, kind |-> kind, items |-> items,
     imageData |-> imageData, mimeType |-> mimeType, other |-> other]

MkObject(is_json, imageData, mimeType, other) ==
    MkBody(is_json, "object", 0, imageData, mimeType, other)

\* is_json: the Content-Type is application/json.
\* kind: "empty" (no body), "malformed" (does not parse), "array", "object".
NoBody == MkBody(FALSE, "empty", 0, Absent, Absent, FALSE)

ImageDataValues == {Absent, Null, Str(""), Str("aGVsbG8=")}
MimeTypeValues == {Absent, Str(""), Str("image/png")}

\* The JSON objects sent: every pair of member values with at most one member
\* missing, null or empty, the empty object, and one with some other member.
Objects ==
    { MkObject(TRUE, i, m, FALSE) : i \in ImageDataValues, m \in {Str("image/png")} }
    \cup { MkObject(TRUE, Str("aGVsbG8="), m, FALSE) : m \in MimeTypeValues }
    \cup { MkObject(TRUE, Absent, Absent, FALSE), MkObject(TRUE, Absent, Absent, TRUE) }

Bodies ==
    { NoBody,
      MkBody(TRUE, "empty", 0, Absent, Absent, FALSE),
      MkBody(TRUE, "malformed", 0, Absent, Absent, FALSE),
      MkBody(TRUE, "array", 0, Absent, Absent, FALSE),
      MkBody(TRUE, "array", 1, Absent, Absent, FALSE),
      MkObject(FALSE, Str("aGVsbG8="), Str("image/png"), FALSE) }
    \cup Objects

Requests ==
    { [method |-> "GET", path |-> "/", body |-> NoBody],
      [method |-> "GET", path |-> "/analyze-image", body |-> NoBody] }
    \cup { [method |-> "POST", path |-> "/analyze-image", body |-> b] : b \in Bodies }

NoRequest == [method |-> "", path |-> "", body |-> NoBody]

\* bool(request.json) once the body has parsed
JsonTruthy(b) ==
    CASE b.kind = "array" -> b.items > 0
      [] b.kind = "object" ->
            b.imageData.has # "absent" \/ b.mimeType.has # "absent" \/ b.other
      [] OTHER -> FALSE

\* request.json.get(key) on a JSON object
Get(b, key) ==
    LET v == IF key = "imageData" THEN b.imageData ELSE b.mimeType
    IN  IF v.has = "string" THEN PyStr(v.s) ELSE PyNone

-----------------------------------------------------------------------------
(* Responses                                                               *)

jsonify(members, status) ==
    [status |-> status, mimetype |-> "application/json", json |-> members, html |-> ""]

\* The framework's page for an HTTP error no handler is registered for.
HttpError(status, title) ==
    [status |-> status, mimetype |-> "text/html", json |-> {}, html |-> title]

NoResponse == [status |-> 0, mimetype |-> "", json |-> {}, html |-> ""]

Keys(resp) == { m[1] : m \in resp.json }
Field(resp, key) == CHOOSE v \in { m[2] : m \in { n \in resp.json : n[1] = key } } : TRUE

-----------------------------------------------------------------------------
(* The external generation API                                             *)

\* A GenerateContentResponse: has_parts is whether a candidate part came
\* back; the text accessor raises ValueError when none did.
MkResponse(is_none, has_parts, text, prompt_feedback) ==
    [is_none |-> is_none, has_parts |-> has_parts, text |-> text,
     prompt_feedback |-> prompt_feedback]

ApiResponses ==
    { MkResponse(TRUE, FALSE, "", ""),
      MkResponse(FALSE, TRUE, "Findings: none.", ""),
      MkResponse(FALSE, TRUE, " ", ""),
      MkResponse(FALSE, TRUE, "", ""),
      MkResponse(FALSE, TRUE, "", "block_reason: OTHER"),
      MkResponse(FALSE, FALSE, "", "block_reason: SAFETY"),
      MkResponse(FALSE, FALSE, "", "") }

QuotaErrors ==
    { "429 ResourceExhausted: quota exceeded",
      "ResourceExhausted",
      "429 Resource has been exhausted (e.g. check quota).",
      "resourceexhausted" }

OtherErrors == { "503 Service Unavailable", "" }

TextAccessorError == "The response.text quick accessor requires a valid Part"

NoOutcome == [kind |-> "none", response |-> MkResponse(TRUE, FALSE, "", ""), error |-> ""]
Returns(resp) == [kind |-> "returns", response |-> resp, error |-> ""]
Raises(e) == [kind |-> "raises", response |-> MkResponse(TRUE, FALSE, "", ""), error |-> e]

\* What one generate_content call can do: return when the API is reachable,
\* raise when it is out of quota or failing.
ApiOutcomes ==
    { Returns(resp) : resp \in ApiResponses }
    \cup { Raises(e) : e \in QuotaErrors \cup OtherErrors }

-----------------------------------------------------------------------------
(* analyze_image: the responses it builds                                  *)

NotJsonResponse == jsonify({<<"error", "Request must be JSON">>}, 400)

MissingFieldsResponse ==
    jsonify({<<"error", "Missing imageData or mimeType in request body">>}, 400)

\* Faulty variant: the text is returned under another member name.
SuccessResponse_WrongKey(text) == jsonify({<<"result", text>>}, 200)

SuccessResponse(text) == jsonify({<<"analysis", text>>}, 200)

\* error_details of the else branch
ErrorDetails(resp) ==
    IF ~resp.is_none /\ resp.prompt_feedback # ""
    THEN "Prompt feedback: " \o resp.prompt_feedback
    ELSE "No text in response."

\* Faulty variant: an empty result is passed on as a success.
EmptyResultResponse_AsSuccess(resp) == jsonify({<<"analysis", resp.text>>}, 200)

EmptyResultResponse(resp) ==
    jsonify({<<"error", "Failed to get analysis from Gemini API">>,
             <<"details", ErrorDetails(resp)>>}, 500)

\* Faulty variant: the quota test is missing.
ExceptionResponse_NoQuotaTest(e) ==
    jsonify({<<"error", "An unexpected error occurred on the backend: " \o e>>,
             <<"backend_detail", e>>}, 500)

\* Faulty variant: the quota test looks for the status code in the message.
ExceptionResponse_ByStatusCode(e) ==
    IF StrIn("429", e)
    THEN jsonify({<<"error", "Quota exceeded. Please try again later.">>,
                  <<"backend_detail", e>>}, 429)
    ELSE jsonify({<<"error", "An unexpected error occurred on the backend: " \o e>>,
                  <<"backend_detail", e>>}, 500)

ExceptionResponse(e) ==
    IF StrIn("ResourceExhausted", e)
    THEN jsonify({<<"error", "Quota exceeded. Please try again later.">>,
                  <<"backend_detail", e>>}, 429)
    ELSE jsonify({<<"error", "An unexpected error occurred on the backend: " \o e>>,
                  <<"backend_detail", e>>}, 500)

NoPrompt ==
    [mime_type |-> PyNone, data |-> PyNone, text |-> "",
     generation_config |-> GenerationConfig, safety_settings |-> SafetySetting]

-----------------------------------------------------------------------------
(* State after the module has been imported                                *)

Init ==
    /\ flask_415 \in BOOLEAN
    /\ generation_config = GenerationConfig
    /\ safety_setting = SafetySetting
    /\ system_prompt = SystemPrompt
    /\ pc = [w \in Workers |-> "idle"]
    /\ request = [w \in Workers |-> NoRequest]
    /\ prompt_parts = [w \in Workers |-> NoPrompt]
    /\ outcome = [w \in Workers |-> NoOutcome]
    /\ exc = [w \in Workers |-> ""]
    /\ calls = [w \in Workers |-> 0]
    /\ logged = [w \in Workers |-> FALSE]
    /\ response = [w \in Workers |-> NoResponse]

globals == <<flask_415, generation_config, safety_setting, system_prompt>>

\* The view returns (or the framework answers for it): the request is over.
Return(w, resp) ==
    /\ pc' = [pc EXCEPT ![w] = "done"]
    /\ response' = [response EXCEPT ![w] = resp]

\* A request arrives and is routed: 404 when no rule has the path, 405 when
\* the rule does not take the method, else analyze_image is entered.
Dispatch(w) ==
    /\ pc[w] = "idle"
    /\ \E req \in Requests :
        /\ request' = [request EXCEPT ![w] = req]
        /\ LET rules == { u \in url_map : u.rule = req.path }
           IN  IF rules = {}
               THEN Return(w, HttpError(404, "Not Found"))
               ELSE IF \A u \in rules : req.method \notin u.methods
               THEN Return(w, HttpError(405, "Method Not Allowed"))
               ELSE /\ pc' = [pc EXCEPT ![w] = "view"]
                    /\ UNCHANGED response
    /\ UNCHANGED <<globals, prompt_parts, outcome, exc, calls, logged>>

\* app.py:70-71.  request.json parses the body: a content type other than
\* JSON gives None or aborts with 415 (by framework version), a body that
\* does not parse aborts with 400.
CheckJson(w) ==
    /\ pc[w] = "view"
    /\ LET b == request[w].body
       IN  IF ~b.is_json
           THEN IF flask_415
                THEN Return(w, HttpError(415, "Unsupported Media Type"))
                ELSE Return(w, NotJsonResponse)
           ELSE IF b.kind \in {"empty", "malformed"}
           THEN Return(w, HttpError(400, "Bad Request"))
           ELSE IF ~JsonTruthy(b)
           THEN Return(w, NotJsonResponse)
           ELSE /\ pc' = [pc EXCEPT ![w] = "fields"]
                /\ UNCHANGED response
    /\ UNCHANGED <<globals, request, prompt_parts, outcome, exc, calls, logged>>

\* app.py:73-77.  .get on a value that is not a dict raises AttributeError
\* outside the try block: the framework answers 500.
CheckFields(w) ==
    /\ pc[w] = "fields"
    /\ LET b == request[w].body
       IN  IF b.kind # "object"
           THEN Return(w, HttpError(500, "Internal Server Error"))
           ELSE IF ~Truthy(Get(b, "imageData")) \/ ~Truthy(Get(b, "mimeType"))
           THEN Return(w, MissingFieldsResponse)
           ELSE /\ pc' = [pc EXCEPT ![w] = "try"]
                /\ UNCHANGED response
    /\ UNCHANGED <<globals, request, prompt_parts, outcome, exc, calls, logged>>

\* Faulty variant: the handler adjusts the shared generation_config per request.
GenerateContent_TunesConfig(w) ==
    /\ pc[w] = "try"
    /\ generation_config' = [generation_config EXCEPT !.temperature = "0"]
    /\ prompt_parts' = [prompt_parts EXCEPT ![w] =
            [mime_type |-> Get(request[w].body, "mimeType"),
             data |-> Get(request[w].body, "imageData"),
             text |-> system_prompt,
             generation_config |-> generation_config',
             safety_settings |-> safety_setting]]
    /\ calls' = [calls EXCEPT ![w] = @ + 1]
    /\ \E o \in ApiOutcomes :
        /\ outcome' = [outcome EXCEPT ![w] = o]
        /\ IF o.kind = "raises"
           THEN /\ exc' = [exc EXCEPT ![w] = o.error]
                /\ pc' = [pc EXCEPT ![w] = "except"]
           ELSE /\ pc' = [pc EXCEPT ![w] = "returned"]
                /\ UNCHANGED exc
    /\ UNCHANGED <<flask_415, safety_setting, system_prompt, request, logged, response>>

\* app.py:79-92.  The outbound call.
GenerateContent(w) ==
    /\ pc[w] = "try"
    /\ prompt_parts' = [prompt_parts EXCEPT ![w] =
            [mime_type |-> Get(request[w].body, "mimeType"),
             data |-> Get(request[w].body, "imageData"),
             text |-> system_prompt,
             generation_config |-> generation_config,
             safety_settings |-> safety_setting]]
    /\ calls' = [calls EXCEPT ![w] = @ + 1]
    /\ \E o \in ApiOutcomes :
        /\ outcome' = [outcome EXCEPT ![w] = o]
        /\ IF o.kind = "raises"
           THEN /\ exc' = [exc EXCEPT ![w] = o.error]
                /\ pc' = [pc EXCEPT ![w] = "except"]
           ELSE /\ pc' = [pc EXCEPT ![w] = "returned"]
                /\ UNCHANGED exc
    /\ UNCHANGED <<globals, request, logged, response>>

\* app.py:95-102.  response.text raises ValueError inside the try block when
\* the response holds no part.
CheckResponse(w) ==
    /\ pc[w] = "returned"
    /\ LET resp == outcome[w].response
       IN  IF ~resp.is_none /\ ~resp.has_parts
           THEN /\ exc' = [exc EXCEPT ![w] = TextAccessorError]
                /\ pc' = [pc EXCEPT ![w] = "except"]
                /\ UNCHANGED response
           ELSE /\ IF ~resp.is_none /\ resp.text # ""
                   THEN Return(w, SuccessResponse(resp.text))
                   ELSE Return(w, EmptyResultResponse(resp))
                /\ UNCHANGED exc
    /\ UNCHANGED <<globals, request, prompt_parts, outcome, calls, logged>>

\* Faulty variant: the call is made once more after an exception.
HandleException_Retry(w) ==
    /\ pc[w] = "except"
    /\ logged' = [logged EXCEPT ![w] = TRUE]
    /\ IF calls[w] < 2
       THEN /\ pc' = [pc EXCEPT ![w] = "try"]
            /\ UNCHANGED response
       ELSE Return(w, ExceptionResponse(exc[w]))
    /\ UNCHANGED <<globals, request, prompt_parts, outcome, exc, calls>>

\* app.py:104-110
HandleException(w) ==
    /\ pc[w] = "except"
    /\ logged' = [logged EXCEPT ![w] = TRUE]
    /\ Return(w, ExceptionResponse(exc[w]))
    /\ UNCHANGED <<globals, request, prompt_parts, outcome, exc, calls>>

\* The response has been sent; the worker is free for the next request.
Finish(w) ==
    /\ pc[w] = "done"
    /\ pc' = [pc EXCEPT ![w] = "idle"]
    /\ request' = [request EXCEPT ![w] = NoRequest]
    /\ prompt_parts' = [prompt_parts EXCEPT ![w] = NoPrompt]
    /\ outcome' = [outcome EXCEPT ![w] = NoOutcome]
    /\ exc' = [exc EXCEPT ![w] = ""]
    /\ calls' = [calls EXCEPT ![w] = 0]
    /\ logged' = [logged EXCEPT ![w] = FALSE]
    /\ response' = [response EXCEPT ![w] = NoResponse]
    /\ UNCHANGED <<globals>>

Next ==
    \/ \E w \in Workers : Dispatch(w)
    \/ \E w \in Workers : CheckJson(w)
    \/ \E w \in Workers : CheckFields(w)
    \/ \E w \in Workers : GenerateContent(w)
    \/ \E w \in Workers : CheckResponse(w)
    \/ \E w \in Workers : HandleException(w)
    \/ \E w \in Workers : Finish(w)

Spec == Init /\ [][Next]_vars

-----------------------------------------------------------------------------
(* Vocabulary of the properties                                            *)

Done(w) == pc[w] = "done"

IsAnalyze(w) == request[w].method = "POST" /\ request[w].path = "/analyze-image"

NonEmptyString(v) == v.has = "string" /\ v.s # ""

\* Both members are present and non-empty in a JSON object.
HasBothFields(b) ==
    b.kind = "object" /\ NonEmptyString(b.imageData) /\ NonEmptyString(b.mimeType)

\* The body is valid JSON sent as JSON, and lacks imageData or mimeType.
LacksField(b) == b.is_json /\ b.kind \in {"array", "object"} /\ ~HasBothFields(b)

WellFormed(w) == IsAnalyze(w) /\ request[w].body.is_json /\ HasBothFields(request[w].body)

\* The call of worker w returned a response whose text is non-empty.
ReturnedText(w) ==
    /\ outcome[w].kind = "returns"
    /\ ~outcome[w].response.is_none
    /\ outcome[w].response.has_parts
    /\ outcome[w].response.text # ""

\* The call of worker w returned, with no usable text.
ReturnedNoText(w) == outcome[w].kind = "returns" /\ ~ReturnedText(w)

IsJsonBody(resp) == resp.mimetype = "application/json"

-----------------------------------------------------------------------------
(* Properties                                                              *)

\* C1: a POST /analyze-image request whose JSON body lacks imageData or
\* mimeType (absent or empty) is answered 400, and generate_content is never
\* called while it is handled.
C1_MissingFieldIs400 ==
    \A w \in Workers :
        (IsAnalyze(w) /\ LacksField(request[w].body)) =>
            /\ calls[w] = 0
            /\ Done(w) => response[w].status = 400

\* C2: a well-formed request whose call returns non-empty text T is answered
\* 200 with the JSON body {"analysis": T}.
C2_SuccessCarriesText ==
    \A w \in Workers :
        (Done(w) /\ WellFormed(w) /\ ReturnedText(w)) =>
            /\ response[w].status = 200
            /\ IsJsonBody(response[w])
            /\ response[w].json = {<<"analysis", outcome[w].response.text>>}

C2_Witness ==
    \E w \in Workers :
        /\ Done(w) /\ WellFormed(w) /\ ReturnedText(w)
        /\ outcome[w].response.text = "Findings: none."
        /\ response[w].status = 200

\* C3: a well-formed request whose call raises an exception whose string form
\* contains "ResourceExhausted" is answered 429, with an error message and a
\* backend_detail string in the body.
C3_QuotaIs429 ==
    \A w \in Workers :
        (Done(w) /\ WellFormed(w) /\ outcome[w].kind = "raises"
            /\ StrIn("ResourceExhausted", outcome[w].error)) =>
            /\ response[w].status = 429
            /\ IsJsonBody(response[w])
            /\ {"error", "backend_detail"} \subseteq Keys(response[w])

C3_Witness ==
    \E w \in Workers :
        /\ Done(w) /\ WellFormed(w) /\ outcome[w].kind = "raises"
        /\ outcome[w].error = "429 ResourceExhausted: quota exceeded"
        /\ response[w].status = 429

\* C4: a well-formed request whose call raises an exception whose string form
\* does not contain "ResourceExhausted" is answered 500, with backend_detail
\* equal to that string form.
C4_OtherExceptionIs500 ==
    \A w \in Workers :
        (Done(w) /\ WellFormed(w) /\ outcome[w].kind = "raises"
            /\ ~StrIn("ResourceExhausted", outcome[w].error)) =>
            /\ response[w].status = 500
            /\ IsJsonBody(response[w])
            /\ "backend_detail" \in Keys(response[w])
            /\ Field(response[w], "backend_detail") = outcome[w].error

C4_Witness ==
    \E w \in Workers :
        /\ Done(w) /\ WellFormed(w) /\ outcome[w].kind = "raises"
        /\ outcome[w].error = "429 Resource has been exhausted (e.g. check quota)."
        /\ response[w].status = 500

\* C5: a well-formed request whose call completes without an exception but
\* returns empty text is answered 500, with an error member in the body.
C5_EmptyTextIs500 ==
    \A w \in Workers :
        (Done(w) /\ WellFormed(w) /\ ReturnedNoText(w)) =>
            /\ response[w].status = 500
            /\ IsJsonBody(response[w])
            /\ "error" \in Keys(response[w])

C5_Witness ==
    \E w \in Workers :
        /\ Done(w) /\ WellFormed(w) /\ outcome[w].kind = "returns"
        /\ ~outcome[w].response.is_none
        /\ outcome[w].response.has_parts
        /\ outcome[w].response.text = ""
        /\ response[w].status = 500

\* C6: GET / is answered 200, whatever the external API does, and without a
\* call to it.
C6_LivenessIs200 ==
    \A w \in Workers :
        (Done(w) /\ request[w].method = "GET" /\ request[w].path = "/") =>
            /\ response[w].status = 200
            /\ calls[w] = 0

\* C7: a POST /analyze-image request whose body is missing or is not valid
\* JSON is answered 400 with a body of the form {error: string}, and
\* generate_content is not called.
C7_NotJsonIs400 ==
    \A w \in Workers :
        (Done(w) /\ IsAnalyze(w) /\ request[w].body.kind \in {"empty", "malformed"}) =>
            /\ response[w].status = 400
            /\ IsJsonBody(response[w])
            /\ Keys(response[w]) = {"error"}
            /\ calls[w] = 0

\* C8: no retries: generate_content is called at most once while a request is
\* handled, and once the request has its response (400, 429, 500 or any other)
\* no further call is made for it.
C8_NoRetry ==
    /\ [](\A w \in Workers : calls[w] <= 1)
    /\ [][\A w \in Workers : Done(w) => calls'[w] <= calls[w]]_vars

C8_Witness ==
    \E w \in Workers :
        /\ Done(w) /\ calls[w] = 1
        /\ response[w].status \in {429, 500}

\* C9: requests are independent and stateless: the handler leaves the module
\* globals as they were, and under any interleaving two requests with the same
\* request data and the same outcome of their own call get the same response,
\* whatever the other workers did before or meanwhile.
C9_Independent ==
    /\ generation_config = GenerationConfig
    /\ safety_setting = SafetySetting
    /\ system_prompt = SystemPrompt
    /\ \A v, w \in Workers :
        (Done(v) /\ Done(w) /\ request[v] = request[w] /\ outcome[v] = outcome[w]) =>
            response[v] = response[w]

C9_Witness ==
    \E v, w \in Workers :
        /\ v # w /\ Done(v) /\ Done(w)
        /\ WellFormed(v) /\ request[v] = request[w]
        /\ outcome[v] = outcome[w] /\ calls[v] = 1 /\ calls[w] = 1
        /\ response[v].status = 200

\* C10: when the call succeeds but returns no usable text, the 500 response
\* has a details member: the prompt feedback of the response when there is
\* one, and "No text in response." when there is none.
C10_DetailsCarryFeedback ==
    \A w \in Workers :
        (Done(w) /\ WellFormed(w) /\ ReturnedNoText(w)) =>
            /\ response[w].status = 500
            /\ "details" \in Keys(response[w])
            /\ LET resp == outcome[w].response
               IN  IF ~resp.is_none /\ resp.prompt_feedback # ""
                   THEN StrIn(resp.prompt_feedback, Field(response[w], "details"))
                   ELSE Field(response[w], "details") = "No text in response."

====
